---- MODULE Spec2Model ----
(***************************************************************************)
(* CattoPic: the header-only image metadata extractor                      *)
(* (src/worker/src/services/imageProcessor.ts) and the concurrent upload   *)
(* scheduler (src/app/utils/concurrentUpload.ts).                          *)
(*                                                                         *)
(* A byte buffer is a sequence of naturals in 0..255.  JavaScript indexes  *)
(* from 0, TLA+ sequences from 1: At(bytes, k) is the JavaScript bytes[k]. *)
(* A read outside a Uint8Array gives undefined, modelled by Undef; the     *)
(* bit operators turn it into 0 (ToInt32), String.fromCharCode into the    *)
(* code unit 0, and === and the relational operators never hold of it.     *)
(* JavaScript's bit operators work on signed 32 bit integers.              *)
(***************************************************************************)
EXTENDS Integers, Sequences, FiniteSets, TLC

VARIABLES
    \* ---- imageProcessor.ts --------------------------------------------
    input,      \* how the buffer was built (kept to state the claims)
    bytes,      \* the buffer handed to getImageDimensions
    pc,         \* "start" | "jpeg" | "avif" | "done" : position in the call
    format,     \* result of detectFormat, "none" before the call
    cursor,     \* i of getJpegDimensions / offset of getAvifDimensions
    width,      \* returned width
    height,     \* returned height
    found,      \* the scan returned from an SOF marker / ispe box at cursor
    iters,      \* loop iterations executed so far (counting stops above the cap)
    visited,    \* cursor values the loop has already processed
    \* ---- concurrentUpload.ts ------------------------------------------
    files,      \* options.files : sequence of distinct file ids
    concurrency,\* options.concurrency (5 when left out)
    queue,      \* queue
    active,     \* active : ids whose promise is in the array
    fstate,     \* per file: "queued" | "pending" | "settled" | "removed" | "skipped"
    statuses,   \* per file: the statuses given to onFileStatusChange, in order
    results,    \* results : sequence of [clientFileId, status]
    aborted,    \* signal.aborted
    mainpc,     \* "idle" | "head" | "fill" | "await" | "returned"
    woken,      \* how Promise.race(active) of the current await has settled
    returned    \* the list as it was when concurrentUpload returned

imgVars == <<input, bytes, pc, format, cursor, width, height, found, iters, visited>>
upVars  == <<files, concurrency, queue, active, fstate, statuses, results,
             aborted, mainpc, woken, returned>>
vars    == <<input, bytes, pc, format, cursor, width, height, found, iters, visited,
             files, concurrency, queue, active, fstate, statuses, results,
             aborted, mainpc, woken, returned>>

(***************************************************************************)
(* JavaScript numbers and bit operators                                    *)
(***************************************************************************)
\* The value of a typed array read outside 0..length-1 (undefined).
Undef == -1

Pow2(n) == 2 ^ n

\* bytes[k]
At(b, k) == IF k >= 0 /\ k < Len(b) THEN b[k + 1] ELSE Undef

\* ToInt32 of a byte read: undefined becomes 0.
ToInt32(x) == IF x = Undef THEN 0 ELSE x

\* x === c for a byte constant c
StrictEq(x, c) == x # Undef /\ x = c

\* x >= c and x <= c : false of undefined (NaN compares false)
Ge(x, c) == x # Undef /\ x >= c
Le(x, c) == x # Undef /\ x <= c

\* a | b on signed 32 bit integers (two's complement, bit by bit)
RECURSIVE BitOr(_, _)
BitOr(a, b) ==
    IF a = 0 THEN b
    ELSE IF b = 0 THEN a
    ELSE IF a = -1 \/ b = -1 THEN -1
    ELSE 2 * BitOr(a \div 2, b \div 2) + (IF a % 2 = 1 \/ b % 2 = 1 THEN 1 ELSE 0)

\* a & b on signed 32 bit integers
RECURSIVE BitAnd(_, _)
BitAnd(a, b) ==
    IF a = 0 \/ b = 0 THEN 0
    ELSE IF a = -1 THEN b
    ELSE IF b = -1 THEN a
    ELSE 2 * BitAnd(a \div 2, b \div 2) + (IF a % 2 = 1 /\ b % 2 = 1 THEN 1 ELSE 0)

\* x << n for 0 < n < 32: the low 32-n bits of x move up, bit 31 is the sign.
Shl(x, n) ==
    LET v  == ToInt32(x)
        lo == v % Pow2(32 - n)
    IN  IF lo >= Pow2(31 - n) THEN (lo - Pow2(32 - n)) * Pow2(n) ELSE lo * Pow2(n)

\* x >> n : sign-propagating shift
Shr(x, n) == ToInt32(x) \div Pow2(n)

\* (a << 24) | (b << 16) | (c << 8) | d
BE32(a, b, c, d) == BitOr(BitOr(BitOr(Shl(a, 24), Shl(b, 16)), Shl(c, 8)), ToInt32(d))

\* (a << 8) | b
BE16(a, b) == BitOr(Shl(a, 8), ToInt32(b))

\* a | (b << 8)
LE16(a, b) == BitOr(ToInt32(a), Shl(b, 8))

\* a | (b << 8) | (c << 16)
LE24(a, b, c) == BitOr(BitOr(ToInt32(a), Shl(b, 8)), Shl(c, 16))

\* String.fromCharCode(x) : the code unit, 0 for undefined
CharCode(x) == IF x = Undef THEN 0 ELSE x % 65536

\* String.fromCharCode(a, b, c, d)
fromCharCode(a, b, c, d) == <<CharCode(a), CharCode(b), CharCode(c), CharCode(d)>>

(***************************************************************************)
(* Four-character codes                                                    *)
(***************************************************************************)
TagAvif == <<\h61, \h76, \h69, \h66>>   \* 'avif'
TagAvis == <<\h61, \h76, \h69, \h73>>   \* 'avis'
TagIspe == <<\h69, \h73, \h70, \h65>>   \* 'ispe'
TagMeta == <<\h6D, \h65, \h74, \h61>>   \* 'meta'
TagIprp == <<\h69, \h70, \h72, \h70>>   \* 'iprp'
TagIpco == <<\h69, \h70, \h63, \h6F>>   \* 'ipco'

FallbackWidth == 1920
FallbackHeight == 1080
Fallback == [width |-> FallbackWidth, height |-> FallbackHeight]

(***************************************************************************)
(* detectFormat                                                            *)
(***************************************************************************)
\* data.slice(0, 12)
Slice12(data) == SubSeq(data, 1, IF Len(data) < 12 THEN Len(data) ELSE 12)

\* IsJpeg with the third byte left untested
IsJpegTwoBytes(b) == StrictEq(At(b, 0), \hFF) /\ StrictEq(At(b, 1), \hD8)

\* IsWebp with the RIFF tag left untested
IsWebpNoRiff(b) ==
    /\ StrictEq(At(b, 8), \h57) /\ StrictEq(At(b, 9), \h45)
    /\ StrictEq(At(b, 10), \h42) /\ StrictEq(At(b, 11), \h50)

\* the five signature tests, on the sliced header b
IsJpeg(b) == StrictEq(At(b, 0), \hFF) /\ StrictEq(At(b, 1), \hD8) /\ StrictEq(At(b, 2), \hFF)

IsPng(b) ==
    /\ StrictEq(At(b, 0), \h89) /\ StrictEq(At(b, 1), \h50)
    /\ StrictEq(At(b, 2), \h4E) /\ StrictEq(At(b, 3), \h47)

IsGif(b) ==
    /\ StrictEq(At(b, 0), \h47) /\ StrictEq(At(b, 1), \h49)
    /\ StrictEq(At(b, 2), \h46) /\ StrictEq(At(b, 3), \h38)

IsWebp(b) ==
    /\ StrictEq(At(b, 0), \h52) /\ StrictEq(At(b, 1), \h49)
    /\ StrictEq(At(b, 2), \h46) /\ StrictEq(At(b, 3), \h46)
    /\ StrictEq(At(b, 8), \h57) /\ StrictEq(At(b, 9), \h45)
    /\ StrictEq(At(b, 10), \h42) /\ StrictEq(At(b, 11), \h50)

IsAvif(b) ==
    /\ StrictEq(At(b, 4), \h66) /\ StrictEq(At(b, 5), \h74)
    /\ StrictEq(At(b, 6), \h79) /\ StrictEq(At(b, 7), \h70)
    /\ LET brand == fromCharCode(At(b, 8), At(b, 9), At(b, 10), At(b, 11))
       IN  brand = TagAvif \/ brand = TagAvis

detectFormat(data) ==
    LET b == Slice12(data)
    IN  IF IsJpeg(b) THEN "jpeg"
        ELSE IF IsPng(b) THEN "png"
        ELSE IF IsGif(b) THEN "gif"
        ELSE IF IsWebp(b) THEN "webp"
        ELSE IF IsAvif(b) THEN "avif"
        ELSE "unknown"

(***************************************************************************)
(* The fixed-offset dimension readers                                      *)
(***************************************************************************)
getPngDimensions(b) ==
    [width  |-> BE32(At(b, 16), At(b, 17), At(b, 18), At(b, 19)),
     height |-> BE32(At(b, 20), At(b, 21), At(b, 22), At(b, 23))]

getGifDimensions(b) ==
    [width  |-> LE16(At(b, 6), At(b, 7)),
     height |-> LE16(At(b, 8), At(b, 9))]

\* bytes[12..15] === 'V' 'P' '8' c
WebpTag(b, c) ==
    /\ StrictEq(At(b, 12), \h56) /\ StrictEq(At(b, 13), \h50)
    /\ StrictEq(At(b, 14), \h38) /\ StrictEq(At(b, 15), c)

Vp8xDimensions(b) ==
    [width  |-> LE24(At(b, 24), At(b, 25), At(b, 26)) + 1,
     height |-> LE24(At(b, 27), At(b, 28), At(b, 29)) + 1]

\* Vp8lDimensions with the two low bits of the height (b1 >> 6) left out
Vp8lDimensionsNoCarry(b) ==
    LET b0 == At(b, 21)
        b1 == At(b, 22)
        b2 == At(b, 23)
        b3 == At(b, 24)
    IN  [width  |-> BitAnd(BitOr(ToInt32(b0), Shl(b1, 8)), \h3FFF) + 1,
         height |-> BitAnd(BitOr(Shl(b2, 2), Shl(b3, 10)), \h3FFF) + 1]

Vp8lDimensions(b) ==
    LET b0 == At(b, 21)
        b1 == At(b, 22)
        b2 == At(b, 23)
        b3 == At(b, 24)
    IN  [width  |-> BitAnd(BitOr(ToInt32(b0), Shl(b1, 8)), \h3FFF) + 1,
         height |-> BitAnd(BitOr(BitOr(Shr(b1, 6), Shl(b2, 2)), Shl(b3, 10)), \h3FFF) + 1]

Vp8Dimensions(b) ==
    [width  |-> BitAnd(LE16(At(b, 26), At(b, 27)), \h3FFF),
     height |-> BitAnd(LE16(At(b, 28), At(b, 29)), \h3FFF)]

getWebpDimensions(b) ==
    IF WebpTag(b, \h58) THEN Vp8xDimensions(b)
    ELSE IF WebpTag(b, \h4C) THEN Vp8lDimensions(b)
    ELSE IF WebpTag(b, \h20) THEN Vp8Dimensions(b)
    ELSE Fallback

(***************************************************************************)
(* getJpegDimensions: one iteration of the marker scan at cursor i         *)
(***************************************************************************)
\* IsSofMarker without the exclusion of C4, C8 and CC
IsSofMarkerNoExclusions(marker) == Ge(marker, \hC0) /\ Le(marker, \hCF)

IsSofMarker(marker) ==
    /\ Ge(marker, \hC0) /\ Le(marker, \hCF)
    /\ ~StrictEq(marker, \hC4) /\ ~StrictEq(marker, \hC8) /\ ~StrictEq(marker, \hCC)

\* how far a non-SOF segment at i moves the cursor: 2 + length
JpegSkip(b, i) == 2 + BE16(At(b, i + 2), At(b, i + 3))

\* [ret |-> TRUE, dim] when the iteration returns, [ret |-> FALSE, i] otherwise
JpegIter(b, i) ==
    IF ~StrictEq(At(b, i), \hFF)
    THEN [ret |-> FALSE, i |-> i + 1, dim |-> Fallback]
    ELSE IF IsSofMarker(At(b, i + 1))
    THEN [ret |-> TRUE, i |-> i,
          dim |-> [width  |-> BE16(At(b, i + 7), At(b, i + 8)),
                   height |-> BE16(At(b, i + 5), At(b, i + 6))]]
    ELSE [ret |-> FALSE, i |-> i + JpegSkip(b, i), dim |-> Fallback]

\* while (i < bytes.length)
JpegCond(b, i) == i < Len(b)

(***************************************************************************)
(* getAvifDimensions: one iteration of the box walk at offset              *)
(***************************************************************************)
AvifCond(b, offset) == offset < Len(b) - 8

AvifBoxSize(b, offset) ==
    BE32(At(b, offset), At(b, offset + 1), At(b, offset + 2), At(b, offset + 3))

AvifBoxType(b, offset) ==
    fromCharCode(At(b, offset + 4), At(b, offset + 5), At(b, offset + 6), At(b, offset + 7))

\* the header bytes stepped over to descend into a container box
AvifDescend(boxType) == IF boxType = TagMeta THEN 12 ELSE 8

\* kind: "break" | "return" | "next"
AvifIter(b, offset) ==
    LET boxSize == AvifBoxSize(b, offset)
        boxType == AvifBoxType(b, offset)
    IN  IF boxSize = 0
        THEN [kind |-> "break", offset |-> offset, dim |-> Fallback]
        ELSE IF boxType = TagIspe
        THEN [kind |-> "return", offset |-> offset,
              dim |-> [width  |-> BE32(At(b, offset + 12), At(b, offset + 13),
                                       At(b, offset + 14), At(b, offset + 15)),
                       height |-> BE32(At(b, offset + 16), At(b, offset + 17),
                                       At(b, offset + 18), At(b, offset + 19))]]
        ELSE IF boxType \in {TagMeta, TagIprp, TagIpco}
        THEN [kind |-> "next", offset |-> offset + AvifDescend(boxType), dim |-> Fallback]
        ELSE [kind |-> "next", offset |-> offset + boxSize, dim |-> Fallback]

(***************************************************************************)
(* The readers as functions of the buffer: the loops run to their end.     *)
(* The box walk need not end; NoReturn stands for a call that never        *)
(* returns (the walk is back at an offset it has processed).               *)
(***************************************************************************)
RECURSIVE JpegScan(_, _)
JpegScan(b, i) ==
    IF ~JpegCond(b, i) THEN Fallback
    ELSE LET r == JpegIter(b, i)
         IN  IF r.ret THEN r.dim ELSE JpegScan(b, r.i)

NoReturn == [returns |-> FALSE]

RECURSIVE AvifWalk(_, _, _)
AvifWalk(b, offset, seen) ==
    IF offset \in seen THEN NoReturn
    ELSE IF ~AvifCond(b, offset) THEN Fallback
    ELSE LET r == AvifIter(b, offset)
         IN  IF r.kind = "next" THEN AvifWalk(b, r.offset, seen \cup {offset}) ELSE r.dim

\* getImageDimensions(data)
ImageDimensions(data) ==
    LET fmt == detectFormat(data)
    IN  CASE fmt = "png"  -> getPngDimensions(data)
          [] fmt = "jpeg" -> JpegScan(data, 2)
          [] fmt = "gif"  -> getGifDimensions(data)
          [] fmt = "webp" -> getWebpDimensions(data)
          [] fmt = "avif" -> AvifWalk(data, 0, {})
          [] OTHER        -> Fallback

\* detectOrientation(width, height)
detectOrientation(w, h) == IF w >= h THEN "landscape" ELSE "portrait"

(***************************************************************************)
(* Input buffers.  Every buffer is built from a description (input) by an  *)
(* encoder that lays the bytes out as the file format prescribes, and is   *)
(* then cut short by  cut  bytes at its end.                               *)
(***************************************************************************)
\* most bytes a buffer is cut short by
MaxCut == 12

\* most marker segments before the frame header of a generated JPEG buffer
MaxSegs == 2

Cuts == 0..MaxCut

Truncate(full, cut) == SubSeq(full, 1, IF Len(full) > cut THEN Len(full) - cut ELSE 0)

\* big-endian and little-endian encodings of n < 2^31
U16BE(n) == <<(n \div 256) % 256, n % 256>>
U16LE(n) == <<n % 256, (n \div 256) % 256>>
U24LE(n) == <<n % 256, (n \div 256) % 256, (n \div 65536) % 256>>
U32BE(n) == <<(n \div 16777216) % 256, (n \div 65536) % 256, (n \div 256) % 256, n % 256>>

\* ---- the 12 byte headers detectFormat looks at -------------------------
First4 == { <<\hFF, \hD8, \hFF, \hE0>>,      \* JPEG SOI + APP0
            <<\h89, \h50, \h4E, \h47>>,      \* PNG
            <<\h47, \h49, \h46, \h38>>,      \* GIF8
            <<\h52, \h49, \h46, \h46>>,      \* RIFF
            <<0, 0, 0, \h1C>>,               \* a box size
            <<\h42, \h4D, \h36, 0>> }        \* BM..
Mid4   == { <<\h66, \h74, \h79, \h70>>,      \* ftyp
            <<\h0D, \h0A, \h1A, \h0A>>,      \* rest of the PNG signature
            <<\h24, 0, 0, 0>> }              \* a RIFF size
Last4  == { <<\h57, \h45, \h42, \h50>>,      \* WEBP
            TagAvif, TagAvis,
            <<\h68, \h65, \h69, \h63>> }     \* heic

\* positions whose byte may be zeroed (12 = none)
Corrupt == 0..12

HeaderInputs ==
    [kind : {"header"}, first : First4, mid : Mid4, last : Last4,
     corrupt : Corrupt, cut : Cuts]

EncodeHeader(in) ==
    LET h == in.first \o in.mid \o in.last
    IN  [k \in 1..12 |-> IF k = in.corrupt + 1 THEN 0 ELSE h[k]]

\* ---- PNG: signature, IHDR length and tag, width, height, bit depth -----
U32Samples == { <<0, 0, 7, \h80>>, <<0, 0, 4, \h38>>, <<0, 0, 0, 0>>,
                <<\h7F, \hFF, \hFF, \hFF>>, <<\h80, 0, 0, 0>>, <<\hFF, \hFF, \hFF, \hFF>> }

PngInputs == [kind : {"png"}, w : U32Samples, h : U32Samples, cut : Cuts]

EncodePng(in) ==
    <<\h89, \h50, \h4E, \h47, \h0D, \h0A, \h1A, \h0A, 0, 0, 0, \h0D,
      \h49, \h48, \h44, \h52>> \o in.w \o in.h \o <<8>>

\* ---- GIF: GIF89a, logical screen width and height, flags ---------------
U16Samples == {0, 1, 640, 32768, 65535}

GifInputs == [kind : {"gif"}, w : U16Samples, h : U16Samples, cut : Cuts]

EncodeGif(in) ==
    <<\h47, \h49, \h46, \h38, \h39, \h61>> \o U16LE(in.w) \o U16LE(in.h) \o <<0, 0>>

\* ---- WebP: RIFF size WEBP, chunk tag, chunk size, chunk payload --------
RiffHead(tag4) ==
    <<\h52, \h49, \h46, \h46, \h24, 0, 0, 0, \h57, \h45, \h42, \h50>>
    \o <<\h56, \h50, \h38, tag4>> \o <<\h0A, 0, 0, 0>>

\* VP8X: flags and reserved at 20..23, width-1 at 24..26, height-1 at 27..29
U24Samples == {0, 639, 479, 16777215}

Vp8xInputs == [kind : {"vp8x"}, w1 : U24Samples, h1 : U24Samples, cut : Cuts]

EncodeVp8x(in) == RiffHead(\h58) \o <<0, 0, 0, 0>> \o U24LE(in.w1) \o U24LE(in.h1)

\* VP8 : frame tag at 20..22, start code at 23..25, width at 26, height at 28
Vp8Inputs == [kind : {"vp8"}, w : U16Samples, h : U16Samples, cut : Cuts]

EncodeVp8(in) ==
    RiffHead(\h20) \o <<\h30, 1, 0, \h9D, 1, \h2A>> \o U16LE(in.w) \o U16LE(in.h)

\* a chunk tag getWebpDimensions does not know ('VP8A')
WebpOtherInputs == [kind : {"webpother"}, cut : Cuts]

EncodeWebpOther(in) == RiffHead(\h41) \o <<1, 2, 3, 4, 5, 6, 7, 8, 9, 10>>

\* VP8L: signature 2F at 20, then 14 bits width-1, 14 bits height-1,
\* 1 bit alpha and 3 bits version, packed little-endian from offset 21
Vp8lBits == 14

Vp8lDims ==
    ({Pow2(k) : k \in 0..Vp8lBits} \cup {Pow2(k) - 1 : k \in 1..Vp8lBits}
        \cup {Pow2(k) + 1 : k \in 0..(Vp8lBits - 1)} \cup {100, 50})

Vp8lExtra == {0, 5, 15}

Vp8lInputs == [kind : {"vp8l"}, w : Vp8lDims, h : Vp8lDims, extra : Vp8lExtra, cut : {0}]
                 \cup [kind : {"vp8l"}, w : {100}, h : {50}, extra : {0}, cut : Cuts]

PackVp8l(w, h, extra) ==
    << (w - 1) % 256,
       ((w - 1) \div 256) + ((h - 1) % 4) * 64,
       ((h - 1) \div 4) % 256,
       ((h - 1) \div 1024) + extra * 16 >>

EncodeVp8l(in) == RiffHead(\h4C) \o <<\h2F>> \o PackVp8l(in.w, in.h, in.extra)

\* ---- JPEG: FF D8, then marker segments ---------------------------------
\* a segment: FF, marker, declared length (2 bytes, big-endian), payload;
\* it is well formed when the declared length is 2 + Len(payload)
Seg(marker, decl, payload) == [marker |-> marker, decl |-> decl, payload |-> payload]

SegOk(marker, payload) == Seg(marker, Len(payload) + 2, payload)

\* a frame header payload: precision, height, width
SofPayload(h, w) == <<8>> \o U16BE(h) \o U16BE(w)

\* a payload that reads like a frame header when the scan lands in it
Decoy == <<\hFF, \hC0, 0, 7, 8, 0, 9, 0, 5>>

NonSofSegs ==
    { SegOk(m, p) : m \in {\hE0, \hC4, \hC8, \hCC}, p \in {<<1, 2>>, Decoy} }
        \cup { Seg(\hE0, 0, Decoy), Seg(\hDB, 65535, <<>>) }

SofSegs ==
    { SegOk(\hC0, SofPayload(600, 800)), SegOk(\hC2, SofPayload(1, 65535)),
      SegOk(\hCF, SofPayload(32768, 2)) }

RECURSIVE SeqsUpTo(_, _)
SeqsUpTo(S, n) ==
    IF n = 0 THEN {<<>>}
    ELSE LET shorter == SeqsUpTo(S, n - 1)
         IN  shorter \cup {Append(q, x) : q \in shorter, x \in S}

JpegInputs ==
    [kind : {"jpeg"}, segs : SeqsUpTo(NonSofSegs \cup SofSegs, MaxSegs), cut : Cuts]

EncodeSeg(s) == <<\hFF, s.marker>> \o U16BE(s.decl) \o s.payload

RECURSIVE EncodeSegs(_)
EncodeSegs(segs) ==
    IF segs = <<>> THEN <<>> ELSE EncodeSeg(Head(segs)) \o EncodeSegs(Tail(segs))

EncodeJpeg(in) == <<\hFF, \hD8>> \o EncodeSegs(in.segs)

\* ---- AVIF: an ISO-BMFF box sequence -----------------------------------
\* ftyp, [pre], meta( [hdlr], iprp( ipco( [colr], [ispe], [pixi] ) ) )
\* A box is its size (4 bytes, big-endian, header included), its type and
\* its content; meta is a full box: 4 bytes of version and flags follow
\* its header.
Box(type4, content) == U32BE(8 + Len(content)) \o type4 \o content

\* a box whose size field holds the four bytes size4, whatever its content
RawBox(size4, type4, content) == size4 \o type4 \o content

TagFtyp == <<\h66, \h74, \h79, \h70>>   \* 'ftyp'
TagFree == <<\h66, \h72, \h65, \h65>>   \* 'free'
TagHdlr == <<\h68, \h64, \h6C, \h72>>   \* 'hdlr'
TagColr == <<\h63, \h6F, \h6C, \h72>>   \* 'colr'
TagPixi == <<\h70, \h69, \h78, \h69>>   \* 'pixi'

FtypBox == Box(TagFtyp, TagAvif \o <<0, 0, 0, 0>>)

IspeBox(w4, h4) == Box(TagIspe, <<0, 0, 0, 0>> \o w4 \o h4)

\* width and height fields of the ispe box; <<>> when the box is removed
IspeDims ==
    { <<U32BE(1200), U32BE(800)>>, <<U32BE(1), U32BE(2147483647)>>,
      <<(<<\h80, 0, 0, 0>>), U32BE(800)>>, <<U32BE(1200), (<<\hFF, \hFF, \hFF, \hFE>>)>> }

\* content of the free box that may stand between ftyp and meta
FreeContent == <<1, 2, 3, 4>>

\* the size field of that box: <<>> when there is no such box, the size of
\* the box (well formed), or four bytes that do not match the box
PreSizes ==
    { U32BE(8 + Len(FreeContent)), <<0, 0, 0, 0>>, <<0, 0, 0, 1>>,
      <<\hFF, \hFF, \hFF, \hF0>>, <<\hFF, \hFF, \hFF, \hFF>>, <<\h80, 0, 0, 0>> }

AvifInputs ==
    [kind : {"avif"}, pre : {<<>>} \cup PreSizes, hdlr : BOOLEAN,
     colr : BOOLEAN, ispe : {<<>>} \cup IspeDims, pixi : BOOLEAN, cut : Cuts]

\* colr content that reads like an ispe box when the walk lands in it
FakeIspe == IspeBox(U32BE(7), U32BE(9))

AvifPre(in) ==
    IF in.pre = <<>> THEN <<>> ELSE RawBox(in.pre, TagFree, FreeContent)

AvifIpco(in) ==
    Box(TagIpco,
        (IF in.colr THEN Box(TagColr, FakeIspe) ELSE <<>>)
        \o (IF in.ispe = <<>> THEN <<>> ELSE IspeBox(in.ispe[1], in.ispe[2]))
        \o (IF in.pixi THEN Box(TagPixi, <<0, 0, 0, 0, 3, 8, 8, 8>>) ELSE <<>>))

AvifMeta(in) ==
    Box(TagMeta,
        <<0, 0, 0, 0>>
        \o (IF in.hdlr THEN Box(TagHdlr, <<0, 0, 0, 0, \h70, \h69, \h63, \h74>>) ELSE <<>>)
        \o Box(TagIprp, AvifIpco(in)))

EncodeAvif(in) == FtypBox \o AvifPre(in) \o AvifMeta(in)

\* ---- all inputs --------------------------------------------------------
Inputs ==
    HeaderInputs \cup PngInputs \cup GifInputs \cup Vp8xInputs \cup Vp8Inputs
        \cup WebpOtherInputs \cup Vp8lInputs \cup JpegInputs \cup AvifInputs

EncodeFull(in) ==
    CASE in.kind = "header"    -> EncodeHeader(in)
      [] in.kind = "png"       -> EncodePng(in)
      [] in.kind = "gif"       -> EncodeGif(in)
      [] in.kind = "vp8x"      -> EncodeVp8x(in)
      [] in.kind = "vp8"       -> EncodeVp8(in)
      [] in.kind = "webpother" -> EncodeWebpOther(in)
      [] in.kind = "vp8l"      -> EncodeVp8l(in)
      [] in.kind = "jpeg"      -> EncodeJpeg(in)
      [] in.kind = "avif"      -> EncodeAvif(in)

Encode(in) == Truncate(EncodeFull(in), in.cut)

(***************************************************************************)
(* getImageDimensions as a state machine: the dispatch on the detected     *)
(* format, then one step per iteration of the JPEG or AVIF loop.           *)
(***************************************************************************)
\* the upload variables while the image processor runs
UploadIdle ==
    /\ files = <<>> /\ concurrency = 0 /\ queue = <<>> /\ active = {}
    /\ fstate = <<>> /\ statuses = <<>> /\ results = <<>>
    /\ aborted = FALSE /\ mainpc = "idle" /\ woken = "no" /\ returned = <<>>

Init ==
    /\ input \in Inputs
    /\ bytes = Encode(input)
    /\ pc = "start"
    /\ format = "none"
    /\ cursor = 0
    /\ width = 0
    /\ height = 0
    /\ found = FALSE
    /\ iters = 0
    /\ visited = {}
    /\ UploadIdle

\* return dim
Return(dim) ==
    /\ pc' = "done"
    /\ width' = dim.width
    /\ height' = dim.height

\* one more loop iteration, at the current cursor
CountIteration ==
    /\ iters' = IF iters <= Len(bytes) THEN iters + 1 ELSE iters
    /\ visited' = visited \cup {cursor}

getImageDimensions ==
    /\ pc = "start"
    /\ format' = detectFormat(bytes)
    /\ CASE format' = "png"  -> Return(getPngDimensions(bytes)) /\ cursor' = cursor
         [] format' = "jpeg" -> pc' = "jpeg" /\ cursor' = 2 /\ UNCHANGED <<width, height>>
         [] format' = "gif"  -> Return(getGifDimensions(bytes)) /\ cursor' = cursor
         [] format' = "webp" -> Return(getWebpDimensions(bytes)) /\ cursor' = cursor
         [] format' = "avif" -> pc' = "avif" /\ cursor' = 0 /\ UNCHANGED <<width, height>>
         [] OTHER            -> Return(Fallback) /\ cursor' = cursor
    /\ UNCHANGED <<input, bytes, found, iters, visited>>
    /\ UNCHANGED upVars

getJpegDimensions ==
    /\ pc = "jpeg"
    /\ IF ~JpegCond(bytes, cursor)
       THEN /\ Return(Fallback)
            /\ UNCHANGED <<cursor, found, iters, visited>>
       ELSE LET r == JpegIter(bytes, cursor)
            IN  /\ CountIteration
                /\ cursor' = r.i
                /\ found' = r.ret
                /\ IF r.ret THEN Return(r.dim) ELSE UNCHANGED <<pc, width, height>>
    /\ UNCHANGED <<input, bytes, format>>
    /\ UNCHANGED upVars

getAvifDimensions ==
    /\ pc = "avif"
    /\ IF ~AvifCond(bytes, cursor)
       THEN /\ Return(Fallback)
            /\ UNCHANGED <<cursor, found, iters, visited>>
       ELSE LET r == AvifIter(bytes, cursor)
            IN  /\ CountIteration
                /\ cursor' = r.offset
                /\ found' = (r.kind = "return")
                /\ IF r.kind = "next" THEN UNCHANGED <<pc, width, height>> ELSE Return(r.dim)
    /\ UNCHANGED <<input, bytes, format>>
    /\ UNCHANGED upVars

Next == getImageDimensions \/ getJpegDimensions \/ getAvifDimensions

Spec == Init /\ [][Next]_vars

(***************************************************************************)
(* Properties of the image processor                                       *)
(***************************************************************************)
Done == pc = "done"

\* b holds pattern at offset pos, wholly inside the buffer
SigAt(b, pos, pattern) ==
    /\ Len(b) >= pos + Len(pattern)
    /\ SubSeq(b, pos + 1, pos + Len(pattern)) = pattern

\* the five magic-byte rules of the specification, read off the buffer
SigJpeg(b) == SigAt(b, 0, <<\hFF, \hD8, \hFF>>)
SigPng(b)  == SigAt(b, 0, <<\h89, \h50, \h4E, \h47>>)
SigGif(b)  == SigAt(b, 0, <<\h47, \h49, \h46, \h38>>)
SigWebp(b) == SigAt(b, 0, <<\h52, \h49, \h46, \h46>>) /\ SigAt(b, 8, <<\h57, \h45, \h42, \h50>>)
SigAvif(b) == SigAt(b, 4, TagFtyp) /\ (SigAt(b, 8, TagAvif) \/ SigAt(b, 8, TagAvis))

\* the rules that hold of b
Matching(b) ==
    (IF SigJpeg(b) THEN {"jpeg"} ELSE {}) \cup (IF SigPng(b) THEN {"png"} ELSE {})
        \cup (IF SigGif(b) THEN {"gif"} ELSE {}) \cup (IF SigWebp(b) THEN {"webp"} ELSE {})
        \cup (IF SigAvif(b) THEN {"avif"} ELSE {})

\* the first rule that holds, in the order the rules are tested
FirstMatching(b) ==
    IF SigJpeg(b) THEN "jpeg" ELSE IF SigPng(b) THEN "png" ELSE IF SigGif(b) THEN "gif"
    ELSE IF SigWebp(b) THEN "webp" ELSE IF SigAvif(b) THEN "avif" ELSE "unknown"

IsFallback == width = FallbackWidth /\ height = FallbackHeight

\* v is the unsigned value of the four big-endian bytes b4
EqU32(v, b4) ==
    /\ v >= 0
    /\ v \div 16777216 = b4[1]
    /\ v % 16777216 = b4[2] * 65536 + b4[3] * 256 + b4[4]

\* the state machine returns what the readers compute, and goes on for ever
\* exactly on the buffers whose box walk never returns
StepsAgreeWithReaders ==
    /\ Done => [width |-> width, height |-> height] = ImageDimensions(bytes)
    /\ (pc = "avif" /\ cursor \in visited) => ImageDimensions(bytes) = NoReturn

\* C1: the JPEG marker scan and the AVIF box walk finish after at most
\* Len(bytes) iterations, and the cursor never comes back to an offset the
\* loop has already processed.
C1_LoopsTerminate ==
    /\ iters <= Len(bytes)
    /\ (pc \in {"jpeg", "avif"} => cursor \notin visited)

\* the JPEG half of C1, which the marker scan does satisfy
JpegScanTerminates ==
    format = "jpeg" => iters <= Len(bytes) /\ (pc = "jpeg" => cursor \notin visited)

\* the bytes holding the width and height fields lie partly or wholly
\* beyond the end of the buffer
FieldsTruncated ==
    \/ format = "png" /\ Len(bytes) < 24
    \/ format = "gif" /\ Len(bytes) < 10
    \/ format = "webp" /\ SigAt(bytes, 12, <<\h56, \h50, \h38, \h58>>) /\ Len(bytes) < 30
    \/ format = "webp" /\ SigAt(bytes, 12, <<\h56, \h50, \h38, \h4C>>) /\ Len(bytes) < 25
    \/ format = "webp" /\ SigAt(bytes, 12, <<\h56, \h50, \h38, \h20>>) /\ Len(bytes) < 30
    \/ format = "jpeg" /\ found /\ Len(bytes) < cursor + 9
    \/ format = "avif" /\ found /\ Len(bytes) < cursor + 20

\* C2: a buffer of a detected format whose width/height bytes are cut off
\* gets exactly the fallback (1920, 1080).
C2_TruncatedGivesFallback == Done /\ FieldsTruncated => IsFallback

\* C3 as claimed: every buffer of 0 to 12 bytes is detected as 'unknown'.
C3_ShortIsUnknown == Done /\ Len(bytes) <= 12 => format = "unknown"

\* C3: for a buffer of 0 to 12 bytes detectFormat returns the first rule
\* whose signature lies wholly inside the buffer (positions beyond the end
\* match nothing), 'unknown' when there is none: jpeg needs 3 bytes, png and
\* gif 4, webp and avif all 12, and under 3 bytes the answer is 'unknown'.
C3_ShortNeedsWholeSignature ==
    Done /\ Len(bytes) <= 12 =>
        /\ format = FirstMatching(bytes)
        /\ (Len(bytes) < 3 => format = "unknown")
        /\ (format \in {"png", "gif"} => Len(bytes) >= 4)
        /\ (format \in {"webp", "avif"} => Len(bytes) = 12)

C3_Witness ==
    /\ Done /\ Len(bytes) = 11 /\ format = "unknown"
    /\ SigAt(bytes, 0, <<\h52, \h49, \h46, \h46>>) /\ SigAt(bytes, 8, <<\h57, \h45, \h42>>)

\* C4 as claimed: at most one of the five rules holds of any buffer.
C4_RulesExclusive == Done => Cardinality(Matching(bytes)) <= 1

\* C4: the JPEG, PNG, GIF and WebP rules exclude each other and WebP excludes
\* AVIF, but the AVIF rule (bytes 4..11) can hold together with the JPEG, PNG
\* or GIF rule (bytes 0..3); the result is the first rule that holds in the
\* order JPEG, PNG, GIF, WebP, AVIF, and 'unknown' when none holds.
C4_FirstRuleWins ==
    Done =>
        /\ Cardinality(Matching(bytes) \ {"avif"}) <= 1
        /\ ~({"webp", "avif"} \subseteq Matching(bytes))
        /\ format = FirstMatching(bytes)
        /\ (Matching(bytes) = {} <=> format = "unknown")

C4_Witness == Done /\ Matching(bytes) = {"jpeg", "avif"} /\ format = "jpeg"

\* C5: the returned width and height are never negative, and a PNG gets the
\* unsigned value of its two 32 bit fields.
C5_NonNegative ==
    Done =>
        /\ width >= 0 /\ height >= 0
        /\ (format = "png" /\ Len(bytes) >= 24 =>
                EqU32(width, SubSeq(bytes, 17, 20)) /\ EqU32(height, SubSeq(bytes, 21, 24)))

\* ---- C6 ----------------------------------------------------------------
SofMarkers == (\hC0..\hCF) \ {\hC4, \hC8, \hCC}

JpegWellFormed(in) ==
    /\ in.kind = "jpeg" /\ in.cut = 0
    /\ \A k \in 1..Len(in.segs) : in.segs[k].decl = 2 + Len(in.segs[k].payload)

\* index of the first frame header among the segments, 0 when there is none
FirstSof(segs) ==
    LET sofs == {k \in 1..Len(segs) : segs[k].marker \in SofMarkers}
    IN  IF sofs = {} THEN 0 ELSE CHOOSE k \in sofs : \A j \in sofs : k <= j

\* offset of the FF of segment k
RECURSIVE SegStart(_, _)
SegStart(segs, k) ==
    IF k = 1 THEN 2 ELSE SegStart(segs, k - 1) + 2 + segs[k - 1].decl

JpegExpected(segs) ==
    LET k == FirstSof(segs)
    IN  IF k = 0 THEN Fallback
        ELSE [width  |-> segs[k].payload[4] * 256 + segs[k].payload[5],
              height |-> segs[k].payload[2] * 256 + segs[k].payload[3]]

\* C6: on FF D8 followed by well-formed segments the scan visits exactly the
\* segment starts up to the first SOF segment (each non-SOF segment skipped
\* by 2 + length) and returns that segment's (width, height), or the
\* fallback when it reaches the end without meeting one.
C6_JpegFirstSof ==
    JpegWellFormed(input) =>
        /\ visited \subseteq {SegStart(input.segs, k) : k \in 1..Len(input.segs)}
        /\ (Done => /\ width = JpegExpected(input.segs).width
                    /\ height = JpegExpected(input.segs).height
                    /\ found = (FirstSof(input.segs) # 0)
                    /\ (found => cursor = SegStart(input.segs, FirstSof(input.segs))))

C6_Witness ==
    /\ Done /\ JpegWellFormed(input) /\ Len(input.segs) = 2
    /\ input.segs[1] = SegOk(\hC4, Decoy)
    /\ input.segs[2] = SegOk(\hC0, SofPayload(600, 800))
    /\ width = 800 /\ height = 600 /\ cursor = 15

\* ---- C7 ----------------------------------------------------------------
AvifWellFormed(in) ==
    /\ in.kind = "avif" /\ in.cut = 0
    /\ in.pre \in {<<>>, U32BE(8 + Len(FreeContent))}

\* C7: on a well-formed box sequence the walk returns the (W, H) of the ispe
\* box reached through meta, iprp and ipco, and the fallback when the ispe box
\* is removed.
C7_AvifIspe ==
    Done /\ AvifWellFormed(input) =>
        IF input.ispe = <<>> THEN IsFallback
        ELSE EqU32(width, input.ispe[1]) /\ EqU32(height, input.ispe[2])

\* the same for width and height fields below 2^31
AvifIspeBelow2G ==
    Done /\ AvifWellFormed(input) =>
        IF input.ispe = <<>> THEN IsFallback
        ELSE input.ispe[1][1] < 128 /\ input.ispe[2][1] < 128 =>
                EqU32(width, input.ispe[1]) /\ EqU32(height, input.ispe[2])

\* ---- C8 ----------------------------------------------------------------
\* C8: a VP8L chunk whose bytes 21..24 pack W-1 (bits 0..13) and H-1 (bits
\* 14..27), whatever the four remaining bits, gives back exactly (W, H).
C8_Vp8lRoundTrip ==
    Done /\ input.kind = "vp8l" /\ input.cut = 0 =>
        format = "webp" /\ width = input.w /\ height = input.h

C8_Witness ==
    /\ Done /\ input.kind = "vp8l" /\ input.cut = 0 /\ input.extra = 15
    /\ input.w = 16384 /\ input.h = 8193 /\ width = 16384 /\ height = 8193

(***************************************************************************)
(* concurrentUpload.  JavaScript runs one piece of code at a time: the     *)
(* body of concurrentUpload from one await to the next (mainpc = "head",   *)
(* "fill"), and between two awaits of it the continuations of the          *)
(* requests.  A promise of the active array is named by its file id.       *)
(*   fstate[f] = "queued"   f is in the queue                              *)
(*               "pending"  uploadOne(f) awaits its request                *)
(*               "settled"  uploadOne(f) has returned; the finally         *)
(*                          callback has not run yet                       *)
(*               "rejected" uploadOne(f) has thrown (a throw of            *)
(*                          onFileStatusChange that no catch took); the    *)
(*                          finally callback has not run yet               *)
(*               "removed"  the finally callback has run                   *)
(* woken tells how the race of the current await has settled: "no",        *)
(* "fulfilled", or "rejected" when the first promise to settle rejected.   *)
(***************************************************************************)
\* most files handed to concurrentUpload
MaxFiles == 3

\* largest concurrency option given explicitly
MaxConc == 2

\* concurrency = 5 when the option is left out
DefaultConcurrency == 5

FileIds == 1..MaxFiles

\* the image processor variables while the upload runs
ImageIdle ==
    /\ input = [kind |-> "upload"] /\ bytes = <<>> /\ pc = "idle" /\ format = "none"
    /\ cursor = 0 /\ width = 0 /\ height = 0 /\ found = FALSE /\ iters = 0
    /\ visited = {}

InitUpload ==
    /\ \E n \in 0..MaxFiles : files = [k \in 1..n |-> k]
    /\ concurrency \in (0..MaxConc) \cup {DefaultConcurrency}
    /\ queue = files
    /\ active = <<>>
    /\ fstate = [f \in 1..Len(files) |-> "queued"]
    /\ statuses = [f \in 1..Len(files) |-> <<>>]
    /\ results = <<>>
    /\ aborted = FALSE
    /\ mainpc = "head"
    /\ woken = "no"
    /\ returned = <<>>
    /\ ImageIdle

\* onFileStatusChange(f, status)
Report(st, f, status) == [st EXCEPT ![f] = Append(@, status)]

UploadResult(f, status) == [clientFileId |-> f, status |-> status]

\* FillCond that lets one upload too many start
FillCondOffByOne == Len(active) <= concurrency /\ queue # <<>>

\* while (queue.length > 0 || active.length > 0)
LoopCond == queue # <<>> \/ active # <<>>

\* while (active.length < concurrency && queue.length > 0)
FillCond == Len(active) < concurrency /\ queue # <<>>

\* the loop test and the cancellation check at the top of an iteration
MainHead ==
    /\ mainpc = "head"
    /\ IF LoopCond /\ ~aborted
       THEN mainpc' = "fill" /\ UNCHANGED returned
       ELSE mainpc' = "returned" /\ returned' = results
    /\ UNCHANGED <<files, concurrency, queue, active, fstate, statuses, results,
                   aborted, woken>>
    /\ UNCHANGED imgVars

\* if (signal?.aborted) return, at the start of uploadOne
UploadCancelled == aborted

\* how uploadOne(f) stands when it stops running
UploadEnd(st, res, state) == [statuses |-> st, results |-> res, state |-> state]

\* the catch block of uploadOne(f), entered with an error that is named
\* AbortError or not: a silent return, or 'error' reported and, unless that
\* call throws in its turn, the error result pushed
uploadOneCatch(st, res, f, namedAbortError) ==
    IF namedAbortError
    THEN {UploadEnd(st, res, "settled")}
    ELSE {UploadEnd(Report(st, f, "error"), Append(res, UploadResult(f, "error")), "settled"),
          UploadEnd(Report(st, f, "error"), res, "rejected")}

\* onFileStatusChange(f, status, result); results.push(result) within the
\* try: the callback returns, or throws an error of either name into the
\* catch
uploadOneReport(st, res, f, status, result) ==
    {UploadEnd(Report(st, f, status), Append(res, result), "settled")}
        \cup uploadOneCatch(Report(st, f, status), res, f, TRUE)
        \cup uploadOneCatch(Report(st, f, status), res, f, FALSE)

\* uploadOne(f) from its first line to its await: the return when the
\* signal is aborted; 'uploading', whose throw nothing catches;
\* 'processing', whose throw the catch takes; the request sent.  The
\* FormData calls take a File and strings made of numbers and booleans and
\* do not throw.
uploadOneStart(st, res, f) ==
    IF UploadCancelled
    THEN {UploadEnd(st, res, "settled")}
    ELSE {UploadEnd(Report(st, f, "uploading"), res, "rejected"),
          UploadEnd(Report(Report(st, f, "uploading"), f, "processing"), res, "pending")}
            \cup uploadOneCatch(Report(Report(st, f, "uploading"), f, "processing"), res, f, TRUE)
            \cup uploadOneCatch(Report(Report(st, f, "uploading"), f, "processing"), res, f, FALSE)

\* one round of the fill loop: queue.shift(), uploadOne(item) up to its
\* await (or to its end when it does not get there), active.push(promise)
MainFillOne ==
    /\ mainpc = "fill"
    /\ FillCond
    /\ LET f == Head(queue)
       IN  /\ queue' = Tail(queue)
           /\ active' = Append(active, f)
           /\ \E e \in uploadOneStart(statuses, results, f) :
                 /\ statuses' = e.statuses
                 /\ results' = e.results
                 /\ fstate' = [fstate EXCEPT ![f] = e.state]
    /\ UNCHANGED <<files, concurrency, aborted, mainpc, woken, returned>>
    /\ UNCHANGED imgVars

\* the fill loop is over: await Promise.race(active), or loop at once
MainFillEnd ==
    /\ mainpc = "fill"
    /\ ~FillCond
    /\ IF active # <<>>
       THEN mainpc' = "await" /\ woken' = "no"
       ELSE mainpc' = "head" /\ UNCHANGED woken
    /\ UNCHANGED <<files, concurrency, queue, active, fstate, statuses, results,
                   aborted, returned>>
    /\ UNCHANGED imgVars

\* the race has settled: the body goes on with the next iteration, or the
\* await throws what the race rejected with and concurrentUpload rejects
MainResume ==
    /\ mainpc = "await"
    /\ woken # "no"
    /\ mainpc' = IF woken = "rejected" THEN "threw" ELSE "head"
    /\ UNCHANGED <<files, concurrency, queue, active, fstate, statuses, results,
                   aborted, woken, returned>>
    /\ UNCHANGED imgVars

\* no synchronous code of concurrentUpload is running
MainSuspended == mainpc \in {"await", "returned", "threw"}

\* what the request of a file comes back with: a response with success and
\* a result ("ok"), another response ("failed"), an error that is not named
\* AbortError ("error"), or an error named AbortError ("abort"); the catch
\* goes by the name of the error alone, whatever the signal
Outcomes == {"ok", "failed", "error", "abort"}

\* the status field of response.result, which the spread copies as it is
ServerStatuses == {"success", "pending", "error"}

\* the rest of uploadOne(f) for each outcome of its request: the success
\* branch, the else branch, and the catch for a rejection of either name
uploadOneAfterRequest(st, res, f, o) ==
    CASE o = "ok" ->
           UNION {uploadOneReport(st, res, f, "success", UploadResult(f, sv)) :
                      sv \in ServerStatuses}
      [] o = "failed" -> uploadOneReport(st, res, f, "error", UploadResult(f, "error"))
      [] o = "error" -> uploadOneCatch(st, res, f, FALSE)
      [] OTHER -> uploadOneCatch(st, res, f, TRUE)

\* the rest of uploadOne(f), after its await
RequestSettles(f) ==
    /\ MainSuspended
    /\ f \in 1..Len(files)
    /\ fstate[f] = "pending"
    /\ \E o \in Outcomes :
          \E e \in uploadOneAfterRequest(statuses, results, f, o) :
             /\ statuses' = e.statuses
             /\ results' = e.results
             /\ fstate' = [fstate EXCEPT ![f] = e.state]
    /\ UNCHANGED <<files, concurrency, queue, active, aborted, mainpc, woken, returned>>
    /\ UNCHANGED imgVars

\* active without the promise of f: indexOf, splice
Splice(a, f) == SelectSeq(a, LAMBDA x : x # f)

\* the finally callback of the promise of f; the promise settles with it
\* as uploadOne(f) did, and with it a race that waits and has not settled
FinallyRemove(f) ==
    /\ MainSuspended
    /\ f \in 1..Len(files)
    /\ fstate[f] \in {"settled", "rejected"}
    /\ active' = Splice(active, f)
    /\ fstate' = [fstate EXCEPT ![f] = "removed"]
    /\ woken' = IF mainpc = "await" /\ woken = "no"
                THEN (IF fstate[f] = "rejected" THEN "rejected" ELSE "fulfilled")
                ELSE woken
    /\ UNCHANGED <<files, concurrency, queue, statuses, results, aborted, mainpc, returned>>
    /\ UNCHANGED imgVars

\* the caller aborts the signal (possibly from within onFileStatusChange)
Abort ==
    /\ mainpc # "idle"
    /\ ~aborted
    /\ aborted' = TRUE
    /\ UNCHANGED <<files, concurrency, queue, active, fstate, statuses, results,
                   mainpc, woken, returned>>
    /\ UNCHANGED imgVars

Main == MainHead \/ MainFillOne \/ MainFillEnd \/ MainResume

NextUpload ==
    \/ MainHead
    \/ MainFillOne
    \/ MainFillEnd
    \/ MainResume
    \/ \E f \in FileIds : RequestSettles(f)
    \/ \E f \in FileIds : FinallyRemove(f)
    \/ Abort

SpecUpload == InitUpload /\ [][NextUpload]_vars

\* the event loop runs code that is ready to run, and every request
\* eventually resolves or rejects
FairSpecUpload ==
    /\ InitUpload
    /\ [][NextUpload]_vars
    /\ WF_vars(Main)
    /\ \A f \in FileIds : WF_vars(RequestSettles(f))
    /\ \A f \in FileIds : WF_vars(FinallyRemove(f))

(***************************************************************************)
(* Properties of concurrentUpload                                          *)
(***************************************************************************)
\* files whose upload has been started and has not settled
InFlight == {f \in 1..Len(files) : fstate[f] = "pending"}

\* some queued file is started in this step
Starts == \E f \in 1..Len(files) : fstate[f] = "queued" /\ fstate'[f] # "queued"

\* C9: at most concurrency uploads are started and not settled, and a
\* queued file is started only while fewer than concurrency are.
C9_ControlledParallelism ==
    /\ [](Cardinality(InFlight) <= concurrency /\ Len(active) <= concurrency)
    /\ [][Starts => Cardinality(InFlight) < concurrency]_vars

C9_Witness ==
    /\ concurrency = 2 /\ Cardinality(InFlight) = 2 /\ queue # <<>> /\ mainpc = "await"

Terminal == {"success", "error"}

TerminalCount(f) == Cardinality({k \in 1..Len(statuses[f]) : statuses[f][k] \in Terminal})

\* the returned list holds one result for each input file, and each file
\* has been reported one terminal status
ReturnedComplete ==
    /\ mainpc = "returned"
    /\ Len(returned) = Len(files)
    /\ \A f \in 1..Len(files) :
        /\ Cardinality({k \in 1..Len(returned) : returned[k].clientFileId = f}) = 1
        /\ TerminalCount(f) = 1
        /\ \A k \in 1..Len(returned) :
              returned[k].clientFileId = f /\ statuses[f][Len(statuses[f])] = "error"
                  => returned[k] = UploadResult(f, "error")

\* C10: with concurrency >= 1, no abort and every request settling,
\* concurrentUpload eventually returns, with exactly one result per input
\* file in the returned list and one terminal status reported for each.
C10_Completes == <>(concurrency < 1 \/ aborted \/ ReturnedComplete)

\* uploadOne(f) is over without having reported one terminal status and
\* pushed one result: it returned from its catch of an error named
\* AbortError, or onFileStatusChange threw
Dropped(f) ==
    /\ fstate[f] \in {"settled", "rejected", "removed"}
    /\ ~(TerminalCount(f) = 1 /\ Cardinality({k \in 1..Len(results) : results[k].clientFileId = f}) = 1)

\* the same as C10 for the runs in which every uploadOne ends with one
\* terminal status and one result
CompletesUnlessDropped ==
    <>(concurrency < 1 \/ aborted \/ (\E f \in 1..Len(files) : Dropped(f)) \/ ReturnedComplete)

C10_Witness ==
    /\ ReturnedComplete /\ ~aborted /\ concurrency = 1 /\ Len(files) = 3
    /\ returned[1].clientFileId = 1 /\ returned[1].status = "error"
    /\ returned[3].status = "success"

\* ---- C11 ---------------------------------------------------------------
\* the status sequences a file may have been given
StatusPrefixes ==
    { <<>>, <<"uploading">>, <<"uploading", "processing">>,
      <<"uploading", "processing", "success">>, <<"uploading", "processing", "error">> }

\* the results pushed for file f
ResultsOf(f) == {k \in 1..Len(results) : results[k].clientFileId = f}

\* so far: every file's statuses follow the protocol, and the result list
\* holds one result for each terminal status reported (an error result for
\* an error; for a success the result carries the status the server gave)
StatusProtocol ==
    \A f \in 1..Len(files) :
        /\ statuses[f] \in StatusPrefixes
        /\ Cardinality(ResultsOf(f)) = TerminalCount(f)
        /\ \A k \in ResultsOf(f) :
              statuses[f][Len(statuses[f])] = "error" => results[k].status = "error"

\* uploadOne(f) starts now with the signal aborted, or has started without
\* reporting anything
StartedCancelled(f) ==
    \/ aborted /\ fstate[f] = "queued"
    \/ fstate[f] # "queued" /\ statuses[f] = <<>>

\* in one step: a result is pushed exactly when a terminal status is
\* reported (one of each, for the same file), statuses and results only grow,
\* and a file whose uploadOne starts with the signal aborted is told nothing
StatusStep ==
    /\ \A f \in 1..Len(files) :
        /\ TerminalCount(f)' - TerminalCount(f) = Cardinality(ResultsOf(f)') - Cardinality(ResultsOf(f))
        /\ Len(statuses'[f]) >= Len(statuses[f])
        /\ SubSeq(statuses'[f], 1, Len(statuses[f])) = statuses[f]
        /\ StartedCancelled(f) => statuses'[f] = <<>>
    /\ Len(results') >= Len(results)
    /\ SubSeq(results', 1, Len(results)) = results
    /\ Len(results') - Len(results) \in {0, 1}

\* C11: for every file the statuses given to onFileStatusChange are a prefix
\* of uploading, processing, then one of success or error; no terminal status
\* comes twice or before processing; a file whose uploadOne starts after the
\* abort gets no status; and a result is appended exactly when a terminal
\* status is reported.
C11_StatusProtocol == []StatusProtocol /\ [][StatusStep]_vars

\* the status sequences the code gives a file, the throws of
\* onFileStatusChange included
StatusSequences ==
    StatusPrefixes \cup
        { <<"uploading", "processing", "success", "error">>,
          <<"uploading", "processing", "error", "error">> }

\* what the code keeps of the protocol when onFileStatusChange may throw:
\* no terminal status before processing, nothing after the second terminal
\* status, never more results than terminal statuses for a file, and
\* nothing for a file whose uploadOne starts with the signal aborted
StatusProtocolWithThrows ==
    /\ [](\A f \in 1..Len(files) :
            /\ statuses[f] \in StatusSequences
            /\ Cardinality(ResultsOf(f)) <= 1
            /\ Cardinality(ResultsOf(f)) <= TerminalCount(f))
    /\ [][\A f \in 1..Len(files) : StartedCancelled(f) => statuses'[f] = <<>>]_vars

\* onFileStatusChange threw on 'success': the file has two terminal
\* statuses and one result, the error result
DoubleTerminal ==
    /\ Len(files) = 1 /\ ~aborted
    /\ statuses[1] = <<"uploading", "processing", "success", "error">>
    /\ results = <<UploadResult(1, "error")>>

====
